---- MODULE Spec2Model ----
(***************************************************************************)
(* A model of the accounting server: the Flask request handlers of         *)
(* app.py, the Database gateway of utils/database.py and the credential    *)
(* helpers of utils/utils.py, over an abstract MongoDB holding the "users" *)
(* and "data" collections.                                                 *)
(*                                                                         *)
(* Python values are tagged records, so that values of different Python    *)
(* types can be compared: str, int, None, ObjectId, dict, list, the bcrypt *)
(* hash string, pymongo's DeleteResult and a signed token.                 *)
(***************************************************************************)
EXTENDS Integers, Sequences, FiniteSets, TLC

\* Bound on the number of ObjectIds the store hands out in one behaviour.
MaxIds == 3
\* Bound on the number of distinct salts gensalt() can draw.
MaxSalt == 1
MaxText == 129
MaxWorkers == 2

VARIABLES
    users,   \* the "users" collection: documents in insertion order
    data,    \* the "data" collection: documents in insertion order
    nextId,  \* the number of the next ObjectId the store generates
    req,     \* the last request (or direct gateway call) that was served
    resp,    \* the terminal response to it
    calls,   \* the Database and Utils calls made while serving it, in order
    old,     \* the collections as they were before it
    util,    \* a text under Utils.encrypt / Utils.decrypt, and how far it got
    inflight, \* per worker, the register request it is serving and where it is
    boot     \* Database._instance and the outcome of the last Database() call

vars == <<users, data, nextId, req, resp, calls, old, util, inflight, boot>>

----------------------------------------------------------------------------
(* Python values *)

StrV(s) == [t |-> "str", s |-> s]
IntV(i) == [t |-> "int", i |-> i]
BoolV(b) == [t |-> "bool", b |-> b]
NoneV == [t |-> "none"]
ObjectIdV(n) == [t |-> "oid", n |-> n]
DictV(kv) == [t |-> "dict", kv |-> kv]
ListV(items) == [t |-> "list", items |-> items]
\* A request body that is not parseable JSON: get_json() raises on it.
BadJson == [t |-> "badjson"]

\* isinstance(v, str): the bcrypt hash is a str too (hashpw(...).decode()).
IsStr(v) == v.t \in {"str", "bcrypt"}

\* Python truthiness, as used by "if not data", "if result", "if user_exists".
Truthy(v) ==
    CASE v.t = "none" -> FALSE
      [] v.t = "dict" -> DOMAIN v.kv # {}
      [] v.t = "list" -> Len(v.items) > 0
      [] v.t = "str"  -> v.s # ""
      [] v.t = "int"  -> v.i # 0
      [] OTHER        -> TRUE   \* objects without __bool__/__len__

\* The order in which a document's fields are iterated.  Stored documents
\* start with _id; the order of the remaining fields decides no claim.
FieldOrder ==
    <<"_id", "username", "password", "role", "j", "k", "owner", "ref">>

Keys(kv) == SelectSeq(FieldOrder, LAMBDA k : k \in DOMAIN kv)

\* str.lower()
Lower(s) ==
    CASE s = "Alice" -> "alice"
      [] OTHER       -> s

\* str(ObjectId): the 24 hex digits of the identifier (shortened here).
OidHex == <<"65f0a1", "65f0a2", "65f0a3", "65f0a4", "65f0a5", "65f0a6">>

ObjectIdStr(n) == OidHex[n]

\* bson.ObjectId(id): parses the hex form, raises InvalidId on anything else.
ObjectId(id) ==
    IF id.t = "str" /\ \E n \in DOMAIN OidHex : OidHex[n] = id.s
    THEN [ok |-> TRUE, v |-> ObjectIdV(CHOOSE n \in DOMAIN OidHex : OidHex[n] = id.s)]
    ELSE [ok |-> FALSE, v |-> NoneV]

\* str(x) as the handlers apply it to an inserted id.
PyStr(v) ==
    CASE v.t = "oid" -> StrV(ObjectIdStr(v.n))
      [] OTHER       -> v

----------------------------------------------------------------------------
(* utils/utils.py *)

\* bcrypt: hashpw(password, salt)
hashpw(password, salt) == [t |-> "bcrypt", salt |-> salt, pw |-> password.s]

\* A hash_password that hands the password back as it came.
hash_password_plain(password, salt) == [exc |-> "", ret |-> password]

\* Utils.hash_password(password) with the salt gensalt() drew; raises
\* AttributeError (no .encode) on a password that is not a str.
hash_password(password, salt) ==
    IF password.t = "str"
    THEN [exc |-> "", ret |-> hashpw(password, salt)]
    ELSE [exc |-> "AttributeError", ret |-> NoneV]

\* Utils.validate_password(stored_hash, entered_password): bcrypt.checkpw
\* rehashes the entered password with the stored salt and compares.
validate_password(stored_hash, entered_password) ==
    IF entered_password.t = "str" /\ IsStr(stored_hash)
    THEN [exc |-> "",
          ret |-> stored_hash.t = "bcrypt"
                  /\ hashpw(entered_password, stored_hash.salt) = stored_hash]
    ELSE [exc |-> "AttributeError", ret |-> FALSE]

\* Utils.create_token(user): signs {id, username} of the first user found.
create_token(user) ==
    [t |-> "jwt", id |-> user.items[1].kv["_id"],
     username |-> user.items[1].kv["username"]]

\* Utils.IV_LENGTH
IV_LENGTH == 16

\* algorithms.AES.block_size: the block size of AES in bits
AES_block_size == 128

\* The number of bytes the cipher takes per block.
BlockBytes == AES_block_size \div 8

\* Utils.ENCRYPTION_KEY, as the byte the block transformation adds.
ENCRYPTION_KEY == 91

\* chr(n) * count
Repeat(c, count) == [i \in 1..count |-> c]

\* str.encode('utf-8'), on a string given as its code points (below 2048):
\* one byte for a code point below 128, two bytes otherwise.
encode_utf8(s) ==
    LET wide(i) == s[i] >= 128
        \* the number of bytes before character i
        off == [i \in 1..Len(s) |-> (i - 1) + Cardinality({j \in 1..(i - 1) : wide(j)})]
        n == Len(s) + Cardinality({j \in 1..Len(s) : wide(j)})
        at(k) == CHOOSE i \in 1..Len(s) :
                    off[i] < k /\ k <= off[i] + (IF wide(i) THEN 2 ELSE 1)
    IN  [k \in 1..n |->
            LET i == at(k)
            IN  IF ~wide(i) THEN s[i]
                ELSE IF k = off[i] + 1 THEN 192 + (s[i] \div 64)
                ELSE 128 + (s[i] % 64)]

\* bytes.decode('utf-8') of one- and two-byte sequences: the code points, or
\* not ok when the bytes are no UTF-8 (UnicodeDecodeError).
decode_bytes(b) ==
    LET lead(i) == b[i] \in 194..223
        cont(i) == b[i] \in 128..191
        start(i) == b[i] < 128 \/ lead(i)
        rank == [i \in 1..Len(b) |-> Cardinality({j \in 1..i : start(j)})]
        n == Cardinality({j \in 1..Len(b) : start(j)})
        at(k) == CHOOSE i \in 1..Len(b) : start(i) /\ rank[i] = k
    IN  IF \A i \in 1..Len(b) :
              /\ start(i) \/ cont(i)
              /\ lead(i) => i < Len(b) /\ cont(i + 1)
              /\ cont(i) => i > 1 /\ lead(i - 1)
        THEN [ok |-> TRUE,
              s |-> [k \in 1..n |->
                        LET i == at(k)
                        IN  IF lead(i) THEN (b[i] - 192) * 64 + (b[i + 1] - 128)
                            ELSE b[i]]]
        ELSE [ok |-> FALSE, s |-> <<>>]

decode_utf8(b) ==
    LET r == decode_bytes(b)
    IN  IF r.ok THEN [exc |-> "", ret |-> r.s]
        ELSE [exc |-> "UnicodeDecodeError", ret |-> <<>>]

HexDigits == <<"0", "1", "2", "3", "4", "5", "6", "7",
               "8", "9", "a", "b", "c", "d", "e", "f">>

\* bytes.hex()
hex(b) ==
    [i \in 1..(2 * Len(b)) |->
        IF i % 2 = 1 THEN HexDigits[(b[(i + 1) \div 2] \div 16) + 1]
        ELSE HexDigits[(b[i \div 2] % 16) + 1]]

HexValue(c) == CHOOSE n \in 0..15 : HexDigits[n + 1] = c

\* bytes.fromhex(), on a string of hex digits of even length
fromhex(h) ==
    [i \in 1..(Len(h) \div 2) |-> 16 * HexValue(h[2 * i - 1]) + HexValue(h[2 * i])]

\* text.split(":"): the parts before and after the first colon
split_colon(t) ==
    LET c == CHOOSE i \in DOMAIN t : t[i] = ":" /\ \A j \in 1..(i - 1) : t[j] # ":"
    IN  <<SubSeq(t, 1, c - 1), SubSeq(t, c + 1, Len(t))>>

\* The AES-CBC encryptor: each byte is combined with the byte one block
\* before it (the IV for the first block) and transformed under the key.
\* finalize() raises ValueError unless the data fills whole blocks.
cbc_encrypt(iv, p) ==
    IF Len(p) % BlockBytes # 0
    THEN [exc |-> "ValueError", ret |-> <<>>]
    ELSE LET c[i \in 1..Len(p)] ==
                 (p[i] + (IF i <= BlockBytes THEN iv[i] ELSE c[i - BlockBytes])
                       + ENCRYPTION_KEY) % 256
         IN  [exc |-> "", ret |-> [i \in 1..Len(p) |-> c[i]]]

\* The AES-CBC decryptor, the inverse of the encryptor.
cbc_decrypt(iv, c) ==
    IF Len(c) % BlockBytes # 0
    THEN [exc |-> "ValueError", ret |-> <<>>]
    ELSE [exc |-> "",
          ret |-> [i \in 1..Len(c) |->
                      (c[i] + 512
                            - (IF i <= BlockBytes THEN iv[i] ELSE c[i - BlockBytes])
                            - ENCRYPTION_KEY) % 256]]

\* Utils.encrypt(text) with the IV os.urandom drew: the text is padded by its
\* length in characters against algorithms.AES.block_size, encoded, encrypted.
encrypt(text, iv) ==
    LET pad == AES_block_size - (Len(text) % AES_block_size)
        padded_text == text \o Repeat(pad, pad)
        encrypted == cbc_encrypt(iv, encode_utf8(padded_text))
    IN  IF encrypted.exc # ""
        THEN [exc |-> encrypted.exc, ret |-> <<>>]
        ELSE [exc |-> "", ret |-> hex(iv) \o <<":">> \o hex(encrypted.ret)]

\* decrypted[:-padding_length]
strip_padding(decrypted) ==
    LET padding_length == decrypted[Len(decrypted)]
    IN  IF padding_length = 0 \/ padding_length >= Len(decrypted)
        THEN <<>>
        ELSE SubSeq(decrypted, 1, Len(decrypted) - padding_length)

\* Utils.decrypt(text)
decrypt(text) ==
    IF text = <<>>
    THEN [exc |-> "", ret |-> <<>>]
    ELSE LET text_parts == split_colon(text)
             iv == fromhex(text_parts[1])
             decrypted == cbc_decrypt(iv, fromhex(text_parts[2]))
         IN  IF decrypted.exc # ""
             THEN [exc |-> decrypted.exc, ret |-> <<>>]
             ELSE IF decrypted.ret = <<>>
             THEN [exc |-> "IndexError", ret |-> <<>>]
             ELSE decode_utf8(strip_padding(decrypted.ret))

----------------------------------------------------------------------------
(* utils/database.py *)

\* Database.serialize_data
RECURSIVE serialize_data(_)
serialize_data(d) ==
    CASE d.t = "oid"  -> StrV(ObjectIdStr(d.n))
      [] d.t = "dict" -> DictV([k \in DOMAIN d.kv |-> serialize_data(d.kv[k])])
      [] d.t = "list" -> ListV([i \in DOMAIN d.items |-> serialize_data(d.items[i])])
      [] OTHER        -> d

\* A query filter {field: value}: every entry equals the document's field,
\* or is an element of it when the field holds an array.
Matches(doc, filter) ==
    \A k \in DOMAIN filter :
        /\ k \in DOMAIN doc.kv
        /\ \/ doc.kv[k] = filter[k]
           \/ /\ doc.kv[k].t = "list"
              /\ \E i \in DOMAIN doc.kv[k].items : doc.kv[k].items[i] = filter[k]

\* collection.find(filter), as a list
find(coll, filter) == SelectSeq(coll, LAMBDA d : Matches(d, filter))

\* The position of the first document matching the filter, 0 when none does.
FirstMatch(coll, filter) ==
    IF \E i \in DOMAIN coll : Matches(coll[i], filter)
    THEN CHOOSE i \in DOMAIN coll :
            /\ Matches(coll[i], filter)
            /\ \A j \in 1..(i - 1) : ~Matches(coll[j], filter)
    ELSE 0

\* collection.insert_one(doc): the store generates _id when the document has
\* none; a document that is not a mapping is refused with TypeError.
insert_one(coll, doc, nid) ==
    IF doc.t # "dict"
    THEN [coll |-> coll, nextId |-> nid, inserted_id |-> NoneV, exc |-> "TypeError"]
    ELSE IF "_id" \in DOMAIN doc.kv
    THEN IF FirstMatch(coll, [_id |-> doc.kv["_id"]]) # 0
         THEN [coll |-> coll, nextId |-> nid, inserted_id |-> NoneV,
               exc |-> "DuplicateKeyError"]
         ELSE [coll |-> Append(coll, doc), nextId |-> nid,
               inserted_id |-> doc.kv["_id"], exc |-> ""]
    ELSE [coll |-> Append(coll, DictV(("_id" :> ObjectIdV(nid)) @@ doc.kv)),
          nextId |-> nid + 1, inserted_id |-> ObjectIdV(nid), exc |-> ""]

\* A replacement of the whole document by the payload, keeping only _id.
set_fields_replace(doc, content) ==
    DictV(content.kv @@ ("_id" :> doc.kv["_id"]))

\* The effect of {"$set": data} on one document: the fields of data are
\* written, the other fields of the document stay.
set_fields(doc, content) == DictV(content.kv @@ doc.kv)

\* collection.find_one_and_update(filter, {"$set": data}, return_document=True)
find_one_and_update(coll, filter, content) ==
    LET i == FirstMatch(coll, filter)
    IN  IF i = 0
        THEN [coll |-> coll, doc |-> NoneV]
        ELSE [coll |-> [coll EXCEPT ![i] = set_fields(coll[i], content)],
              doc |-> set_fields(coll[i], content)]

\* collection.delete_one(filter): a DeleteResult carrying the count.
delete_one(coll, filter) ==
    LET i == FirstMatch(coll, filter)
    IN  IF i = 0
        THEN [coll |-> coll, result |-> [t |-> "DeleteResult", deleted_count |-> 0]]
        ELSE [coll |-> SubSeq(coll, 1, i - 1) \o SubSeq(coll, i + 1, Len(coll)),
              result |-> [t |-> "DeleteResult", deleted_count |-> 1]]

\* "[self.serialize_data(item) for item in result] if result else []":
\* iterating a dict yields its keys, iterating a list its items, and an
\* object that is not iterable raises TypeError.
serialize_each(result) ==
    IF ~Truthy(result)
    THEN [exc |-> "", ret |-> ListV(<<>>)]
    ELSE CASE result.t = "dict" ->
                [exc |-> "",
                 ret |-> ListV([i \in DOMAIN Keys(result.kv) |->
                                   serialize_data(StrV(Keys(result.kv)[i]))])]
           [] result.t = "list" ->
                [exc |-> "",
                 ret |-> ListV([i \in DOMAIN result.items |->
                                   serialize_data(result.items[i])])]
           [] OTHER -> [exc |-> "TypeError", ret |-> NoneV]

\* db.up lists, for the Database calls still to come, whether the MongoDB
\* server answers; the empty list stands for a server that always answers.
Unreachable(db) == db.up # <<>> /\ ~Head(db.up)

\* The handle once one more call went to the server.
Reached(db) == IF db.up = <<>> THEN db ELSE [db EXCEPT !.up = Tail(db.up)]

\* A pymongo call with no server to select: the 5000 ms selection timeout
\* ends in ServerSelectionTimeoutError.
Timeout(db, op, args) ==
    [db |-> Reached(db),
     call |-> [op |-> op, args |-> args, ret |-> NoneV,
               exc |-> "ServerSelectionTimeoutError"]]

\* An add_user over a collection with a unique index on username.
Database_add_user_unique(db, user) ==
    LET taken == FirstMatch(db.users, [username |-> user.kv["username"]]) # 0
        r == insert_one(db.users, user, db.nextId)
    IN  IF taken
        THEN [db |-> db,
              call |-> [op |-> "add_user", args |-> <<user>>,
                        ret |-> NoneV, exc |-> "DuplicateKeyError"]]
        ELSE [db |-> [db EXCEPT !.users = r.coll, !.nextId = r.nextId],
              call |-> [op |-> "add_user", args |-> <<user>>,
                        ret |-> r.inserted_id, exc |-> r.exc]]

\* Database.add_user
Database_add_user(db, user) ==
    IF Unreachable(db) THEN Timeout(db, "add_user", <<user>>)
    ELSE
    LET r == insert_one(db.users, user, db.nextId)
    IN  [db |-> [Reached(db) EXCEPT !.users = r.coll, !.nextId = r.nextId],
         call |-> [op |-> "add_user", args |-> <<user>>,
                   ret |-> r.inserted_id, exc |-> r.exc]]

\* Database.get_user
Database_get_user(db, filter) ==
    IF Unreachable(db) THEN Timeout(db, "get_user", <<DictV(filter)>>)
    ELSE
    [db |-> Reached(db),
     call |-> [op |-> "get_user", args |-> <<DictV(filter)>>,
               ret |-> serialize_data(ListV(find(db.users, filter))), exc |-> ""]]

\* Database.add_data
Database_add_data(db, content) ==
    IF Unreachable(db) THEN Timeout(db, "add_data", <<content>>)
    ELSE
    LET r == insert_one(db.data, content, db.nextId)
    IN  [db |-> [Reached(db) EXCEPT !.data = r.coll, !.nextId = r.nextId],
         call |-> [op |-> "add_data", args |-> <<content>>,
                   ret |-> r.inserted_id, exc |-> r.exc]]

\* Database.get_all_data
Database_get_all_data(db, filter) ==
    IF Unreachable(db) THEN Timeout(db, "get_all_data", <<DictV(filter)>>)
    ELSE
    [db |-> Reached(db),
     call |-> [op |-> "get_all_data", args |-> <<DictV(filter)>>,
               ret |-> serialize_data(ListV(find(db.data, filter))), exc |-> ""]]

\* Database.update_data
Database_update_data(db, id, content) ==
    LET oid == ObjectId(id)
    IN  IF ~oid.ok
        THEN [db |-> db,
              call |-> [op |-> "update_data", args |-> <<id, content>>,
                        ret |-> NoneV, exc |-> "InvalidId"]]
        ELSE IF Unreachable(db) THEN Timeout(db, "update_data", <<id, content>>)
        ELSE LET r == find_one_and_update(db.data, [_id |-> oid.v], content)
                 s == serialize_each(r.doc)
             IN  [db |-> [Reached(db) EXCEPT !.data = r.coll],
                  call |-> [op |-> "update_data", args |-> <<id, content>>,
                            ret |-> s.ret, exc |-> s.exc]]

\* Database.delete_data
Database_delete_data(db, id) ==
    LET oid == ObjectId(id)
    IN  IF ~oid.ok
        THEN [db |-> db,
              call |-> [op |-> "delete_data", args |-> <<id>>,
                        ret |-> NoneV, exc |-> "InvalidId"]]
        ELSE IF Unreachable(db) THEN Timeout(db, "delete_data", <<id>>)
        ELSE LET r == delete_one(db.data, [_id |-> oid.v])
                 s == serialize_each(r.result)
             IN  [db |-> [Reached(db) EXCEPT !.data = r.coll],
                  call |-> [op |-> "delete_data", args |-> <<id>>,
                            ret |-> s.ret, exc |-> s.exc]]

----------------------------------------------------------------------------
(* app.py: the request handlers.  Each yields the store after the request, *)
(* the Database calls it made and its one terminal response.               *)

\* jsonify(body), status
Response(status, body) == [status |-> status, body |-> body]

Message(key, text) == DictV((key :> StrV(text)))

Outcome(db, cs, r) == [db |-> db, calls |-> cs, resp |-> r]

\* A call of the Credential Utility, as the handlers record it.
UtilsCall(op, args, r) == [op |-> op, args |-> args, ret |-> r.ret, exc |-> r.exc]

\* register_user, with the salt gensalt() draws
register_user(db, body, salt) ==
    IF body = BadJson
    THEN Outcome(db, <<>>, Response(500, Message("message", "Internal server error")))
    ELSE IF \/ ~Truthy(body)
            \/ "username" \notin DOMAIN body.kv
            \/ "password" \notin DOMAIN body.kv
            \/ "role" \notin DOMAIN body.kv
    THEN Outcome(db, <<>>, Response(400, Message("error", "Invalid input")))
    ELSE IF body.kv["username"].t # "str"
    THEN Outcome(db, <<>>, Response(500, Message("message", "Internal server error")))
    ELSE
    LET username == StrV(Lower(body.kv["username"].s))
        password == body.kv["password"]
        role     == body.kv["role"]
        user_exists == Database_get_user(db, [name |-> username])
    IN  IF user_exists.call.exc # ""
        THEN Outcome(db, <<user_exists.call>>,
                     Response(500, Message("message", "Internal server error")))
        ELSE IF Truthy(user_exists.call.ret)
        THEN Outcome(db, <<user_exists.call>>,
                     Response(400, Message("message", "User already exists")))
        ELSE
        LET hasedPassword == hash_password(password, salt)
            hashed == UtilsCall("hash_password", <<password>>, hasedPassword)
        IN  IF hasedPassword.exc # ""
            THEN Outcome(db, <<user_exists.call, hashed>>,
                         Response(500, Message("message", "Internal server error")))
            ELSE
            LET new_user == DictV([username |-> username,
                                   password |-> hasedPassword.ret,
                                   role |-> role])
                created_user == Database_add_user(user_exists.db, new_user)
            IN  IF created_user.call.exc # ""
                THEN Outcome(created_user.db,
                             <<user_exists.call, hashed, created_user.call>>,
                             Response(500, Message("message", "Internal server error")))
                ELSE Outcome(created_user.db,
                             <<user_exists.call, hashed, created_user.call>>,
                             Response(201,
                                 DictV([message |-> StrV("User registered successfully"),
                                        user |-> PyStr(created_user.call.ret)])))

\* login_user
login_user(db, body) ==
    IF body = BadJson
    THEN Outcome(db, <<>>, Response(500, Message("message", "Internal server error")))
    ELSE IF \/ ~Truthy(body)
            \/ "username" \notin DOMAIN body.kv
            \/ "password" \notin DOMAIN body.kv
    THEN Outcome(db, <<>>, Response(400, Message("error", "Invalid input")))
    ELSE IF body.kv["username"].t # "str"
    THEN Outcome(db, <<>>, Response(500, Message("message", "Internal server error")))
    ELSE
    LET username == StrV(Lower(body.kv["username"].s))
        password == body.kv["password"]
        user     == Database_get_user(db, [username |-> username])
    IN  IF user.call.exc # ""
        THEN Outcome(db, <<user.call>>,
                     Response(500, Message("message", "Internal server error")))
        ELSE IF ~Truthy(user.call.ret)
        THEN Outcome(db, <<user.call>>,
                     Response(400, Message("message", "User not found")))
        ELSE IF "password" \notin DOMAIN user.call.ret.items[1].kv
        THEN Outcome(db, <<user.call>>,
                     Response(500, Message("message", "Internal server error")))
        ELSE
        LET encryptPassword == user.call.ret.items[1].kv["password"]
            passwordMatch   == validate_password(encryptPassword, password)
            validated == UtilsCall("validate_password", <<encryptPassword, password>>,
                                   [exc |-> passwordMatch.exc,
                                    ret |-> BoolV(passwordMatch.ret)])
        IN  IF passwordMatch.exc # ""
            THEN Outcome(db, <<user.call, validated>>,
                         Response(500, Message("message", "Internal server error")))
            ELSE IF ~passwordMatch.ret
            THEN Outcome(db, <<user.call, validated>>,
                         Response(400, Message("message", "Incorrect password")))
            ELSE Outcome(db, <<user.call, validated>>,
                         Response(200, DictV([token |-> create_token(user.call.ret)])))

\* A list-records handler that answers a fault with the fault's own text.
get_data_leaky(db, filter_data) ==
    LET all_data == Database_get_all_data(db, filter_data)
    IN  IF all_data.call.exc # ""
        THEN Outcome(db, <<all_data.call>>,
                     Response(500, Message("message", all_data.call.exc)))
        ELSE Outcome(db, <<all_data.call>>, Response(200, all_data.call.ret))

\* get_data, on the query arguments as a dict of strings
get_data(db, filter_data) ==
    LET all_data == IF ~Truthy(DictV(filter_data))
                    THEN Database_get_all_data(db, <<>>)
                    ELSE Database_get_all_data(db, filter_data)
    IN  IF all_data.call.exc # ""
        THEN Outcome(db, <<all_data.call>>,
                     Response(500, Message("message", "Error retrieving data")))
        ELSE IF ~Truthy(all_data.call.ret)
        THEN Outcome(db, <<all_data.call>>, Response(200, ListV(<<>>)))
        ELSE Outcome(db, <<all_data.call>>, Response(200, all_data.call.ret))

\* add_data: request.json.get('content', {}) raises when the body is not
\* JSON (get_json) or is JSON but no object (no .get).
add_data(db, body) ==
    IF body = BadJson \/ body.t # "dict"
    THEN Outcome(db, <<>>, Response(500, Message("message", "Error adding data")))
    ELSE
    LET content == IF "content" \in DOMAIN body.kv
                   THEN body.kv["content"] ELSE DictV(<<>>)
    IN  IF ~Truthy(content)
        THEN Outcome(db, <<>>, Response(400, Message("message", "Content is required")))
        ELSE
        LET new_data_id == Database_add_data(db, content)
        IN  IF new_data_id.call.exc # ""
            THEN Outcome(new_data_id.db, <<new_data_id.call>>,
                         Response(500, Message("message", "Error adding data")))
            ELSE Outcome(new_data_id.db, <<new_data_id.call>>,
                         Response(201, DictV([message |-> StrV("Data added"),
                                              id |-> PyStr(new_data_id.call.ret)])))

\* delete_data: delete_result.deleted_count raises AttributeError when the
\* gateway returned something that is no DeleteResult.
delete_data(db, id) ==
    LET delete_result == Database_delete_data(db, id)
    IN  IF delete_result.call.exc # "" \/ delete_result.call.ret.t # "DeleteResult"
        THEN Outcome(delete_result.db, <<delete_result.call>>,
                     Response(500, Message("message", "Error deleting data")))
        ELSE IF delete_result.call.ret.deleted_count = 0
        THEN Outcome(delete_result.db, <<delete_result.call>>,
                     Response(404, Message("message", "Data not found")))
        ELSE Outcome(delete_result.db, <<delete_result.call>>, Response(204, StrV("")))

----------------------------------------------------------------------------
(* Requests *)

Salts == 1..MaxSalt

UsernameInputs == {StrV("Alice"), StrV("alice"), StrV("bob"), IntV(5)}
PasswordInputs == {StrV("weakpass"), StrV("Passw0rd!")}
RoleInputs == {StrV("user")}

FieldInputs(k) ==
    CASE k = "username" -> UsernameInputs
      [] k = "password" -> PasswordInputs
      [] k = "role"     -> RoleInputs

\* JSON objects over some of the given fields, null, and a body that is no JSON.
Bodies(fields) ==
    {BadJson, NoneV} \cup
    { DictV(f) : f \in UNION { { g \in [D -> UsernameInputs \cup PasswordInputs \cup RoleInputs] :
                                   \A k \in D : g[k] \in FieldInputs(k) } :
                               D \in SUBSET fields } }

RegisterBodies == Bodies({"username", "password", "role"})
LoginBodies == Bodies({"username", "password"})

\* Record contents a client posts: an object, an empty object, a string.
Contents ==
    {DictV([k |-> StrV("v"), j |-> StrV("u")]), DictV(<<>>), StrV("text")}

AddBodies ==
    {BadJson, NoneV, DictV(<<>>)} \cup { DictV([content |-> c]) : c \in Contents }

\* Query strings of GET /api/data.
Filters == {<<>>, [k |-> StrV("v")], [j |-> StrV("zz")]}

\* Identifiers in a path or a gateway call: the hex form of an id the store
\* has handed out or may hand out, and one that is no ObjectId.
IdInputs == {StrV(OidHex[n]) : n \in 1..(MaxIds + 1)} \cup {StrV("1")}

\* Update payloads of direct update_data calls; the second nests an ObjectId.
UpdateContents ==
    {DictV([k |-> StrV("w")]),
     DictV([owner |-> ListV(<<DictV([ref |-> ObjectIdV(1)])>>)])}

----------------------------------------------------------------------------
(* The state machine *)

\* The gateway over the store as it is, with a server that answers.
Db == [users |-> users, data |-> data, nextId |-> nextId, up |-> <<>>]

Request(op, id, body) == [op |-> op, id |-> id, body |-> body]

\* The state after a handler ended with outcome out.
Serve(r, out) ==
    /\ out.db.nextId <= MaxIds + 1
    /\ users' = out.db.users
    /\ data' = out.db.data
    /\ nextId' = out.db.nextId
    /\ req' = r
    /\ resp' = out.resp
    /\ calls' = out.calls
    /\ old' = [users |-> users, data |-> data]
    /\ UNCHANGED <<util, inflight, boot>>

\* The store and the request history at process start.
InitStore ==
    /\ users = <<>>
    /\ data = <<>>
    /\ nextId = 1
    /\ req = Request("none", NoneV, NoneV)
    /\ resp = Response(0, NoneV)
    /\ calls = <<>>
    /\ old = [users |-> <<>>, data |-> <<>>]

NoResult == [exc |-> "", ret |-> <<>>]

\* A text handed to the Credential Utility, not yet encrypted.
Plain(text, iv) ==
    [stage |-> "plain", text |-> text, iv |-> iv,
     encrypted |-> NoResult, decrypted |-> NoResult]

\* The workers of the server, each serving one request at a time.
Workers == 1..MaxWorkers

\* A worker with no request.
Idle ==
    [at |-> "idle", body |-> NoneV, passed |-> FALSE, ahead |-> {},
     resp |-> Response(0, NoneV)]

\* Database._instance: "none" while it is None, "raw" for an object whose
\* _init_db has not completed, "ready" for one with client, db, users, data.
\* last is how the last Database() call ended, before is _instance as that
\* call found it, tried is whether the call ran _init_db.
Booted(instance, before, last, tried) ==
    [instance |-> instance, before |-> before, last |-> last, tried |-> tried]

\* The process before any Database() call.
NotBooted == Booted("none", "none", "none", FALSE)

\* Database.__new__, with ping telling whether the server answers the ping
\* of _init_db: the new object is bound to cls._instance before _init_db runs.
Database_new(b, ping) ==
    IF b.instance = "none"
    THEN IF ping
         THEN Booted("ready", b.instance, "returned", TRUE)
         ELSE Booted("raw", b.instance, "raised", TRUE)
    ELSE Booted(b.instance, b.instance, "returned", FALSE)

Init ==
    /\ InitStore
    /\ util = Plain(<<>>, <<>>)
    /\ inflight = [w \in Workers |-> Idle]
    /\ boot = Database_new(NotBooted, TRUE)

\* POST /api/auth/register
Register ==
    \E body \in RegisterBodies, salt \in Salts :
        Serve(Request("register", NoneV, body), register_user(Db, body, salt))

\* POST /api/auth/login
Login ==
    \E body \in LoginBodies :
        Serve(Request("login", NoneV, body), login_user(Db, body))

\* GET /api/data
GetData ==
    \E f \in Filters :
        Serve(Request("get", NoneV, DictV(f)), get_data(Db, f))

\* POST /api/data
AddData ==
    \E body \in AddBodies :
        Serve(Request("add", NoneV, body), add_data(Db, body))

\* DELETE /api/data/<id>
DeleteData ==
    \E id \in IdInputs :
        Serve(Request("delete", id, NoneV), delete_data(Db, id))

\* A direct call of Database.update_data (no route of app.py reaches it).
UpdateData ==
    \E id \in IdInputs, content \in UpdateContents :
        LET r == Database_update_data(Db, id, content)
        IN  Serve(Request("update_data", id, content),
                  Outcome(r.db, <<r.call>>, Response(0, NoneV)))

Next ==
    \/ Register
    \/ Login
    \/ GetData
    \/ AddData
    \/ DeleteData
    \/ UpdateData

Spec == Init /\ [][Next]_vars

\* The record operations alone: the routes over the "data" collection and
\* direct update_data calls.
NextData ==
    \/ GetData
    \/ AddData
    \/ DeleteData
    \/ UpdateData

SpecData == Init /\ [][NextData]_vars

\* Record contents with an array-valued field.
ListContents == {DictV([k |-> ListV(<<StrV("v")>>)])}

\* POST /api/data with an array-valued field in the content
AddListData ==
    \E c \in ListContents :
        Serve(Request("add", NoneV, DictV([content |-> c])),
              add_data(Db, DictV([content |-> c])))

\* The lookups: the routes that read the collections through get_user and
\* get_all_data, and the routes that fill them.
NextQuery ==
    \/ Register
    \/ Login
    \/ GetData
    \/ AddData
    \/ AddListData

SpecQuery == Init /\ [][NextQuery]_vars

\* Register bodies of concurrent requests: every field present, all strings.
RaceBodies ==
    { DictV([username |-> u, password |-> pw, role |-> StrV("user")]) :
        u \in {StrV("Alice"), StrV("alice"), StrV("bob")}, pw \in PasswordInputs }

\* register_user up to its existence check (app.py lines 82 to 94): the
\* worker takes a request, looks the username up and either answers 400 or
\* goes on; ahead is the set of workers that had finished by then.
RegisterCheck(w) ==
    /\ inflight[w].at = "idle"
    /\ \E body \in RaceBodies :
          LET username == StrV(Lower(body.kv["username"].s))
              user_exists == Database_get_user(Db, [name |-> username])
              finished == {v \in Workers : inflight[v].at = "done"}
          IN  inflight' =
                [inflight EXCEPT ![w] =
                    IF Truthy(user_exists.call.ret)
                    THEN [at |-> "done", body |-> body, passed |-> FALSE,
                          ahead |-> finished,
                          resp |-> Response(400, Message("message", "User already exists"))]
                    ELSE [at |-> "insert", body |-> body, passed |-> TRUE,
                          ahead |-> finished, resp |-> Response(0, NoneV)]]
    /\ UNCHANGED <<users, data, nextId, req, resp, calls, old, util, boot>>

\* register_user from the hash to the response (app.py lines 96 to 111)
RegisterInsert(w) ==
    /\ inflight[w].at = "insert"
    /\ \E salt \in Salts :
          LET body == inflight[w].body
              username == StrV(Lower(body.kv["username"].s))
              hasedPassword == hash_password(body.kv["password"], salt)
              new_user == DictV([username |-> username,
                                 password |-> hasedPassword.ret,
                                 role |-> body.kv["role"]])
              created_user == Database_add_user(Db, new_user)
              failed == hasedPassword.exc # "" \/ created_user.call.exc # ""
          IN  /\ created_user.db.nextId <= MaxIds + 1
              /\ users' = IF hasedPassword.exc # "" THEN users ELSE created_user.db.users
              /\ nextId' = IF hasedPassword.exc # "" THEN nextId ELSE created_user.db.nextId
              /\ inflight' =
                    [inflight EXCEPT ![w].at = "done",
                                     ![w].resp =
                        IF failed
                        THEN Response(500, Message("message", "Internal server error"))
                        ELSE Response(201,
                                DictV([message |-> StrV("User registered successfully"),
                                       user |-> PyStr(created_user.call.ret)]))]
    /\ UNCHANGED <<data, req, resp, calls, old, util, boot>>

\* Register requests served by concurrent workers, one store call at a time.
NextRace ==
    \/ \E w \in Workers : RegisterCheck(w)
    \/ \E w \in Workers : RegisterInsert(w)

SpecRace == Init /\ [][NextRace]_vars

InitBoot ==
    /\ InitStore
    /\ util = Plain(<<>>, <<>>)
    /\ inflight = [w \in Workers |-> Idle]
    /\ boot = NotBooted

\* Database()
Construct ==
    /\ \E ping \in BOOLEAN : boot' = Database_new(boot, ping)
    /\ UNCHANGED <<users, data, nextId, req, resp, calls, old, util, inflight>>

\* A method called on an object whose _init_db did not complete: self.users
\* and self.data are not set.
NoAttribute(op, args) ==
    [db |-> Db,
     call |-> [op |-> op, args |-> args, ret |-> NoneV, exc |-> "AttributeError"]]

\* add_data called on the object the last Database() returned
InstanceAddData ==
    /\ boot.last = "returned"
    /\ \E content \in Contents \cup ListContents :
          LET r == IF boot.instance = "ready"
                   THEN Database_add_data(Db, content)
                   ELSE NoAttribute("add_data", <<content>>)
          IN  Serve(Request("add_data", NoneV, content),
                    Outcome(r.db, <<r.call>>, Response(0, NoneV)))

\* get_all_data called on the object the last Database() returned
InstanceGetAllData ==
    /\ boot.last = "returned"
    /\ \E f \in Filters :
          LET r == IF boot.instance = "ready"
                   THEN Database_get_all_data(Db, f)
                   ELSE NoAttribute("get_all_data", <<DictV(f)>>)
          IN  Serve(Request("get_all_data", NoneV, DictV(f)),
                    Outcome(r.db, <<r.call>>, Response(0, NoneV)))

\* Database() calls in one process, and calls on what they return.
NextBoot ==
    \/ Construct
    \/ InstanceAddData
    \/ InstanceGetAllData

SpecBoot == InitBoot /\ [][NextBoot]_vars

\* The MongoDB server during one request: it answers every Database call,
\* it is gone at the first, or it answers one call and is gone at the next.
Outages == {<<>>, <<FALSE>>, <<TRUE, FALSE>>}

\* The gateway while the server behaves as up says.
DbWhile(up) == [Db EXCEPT !.up = up]

\* Bodies with every required field, some with a password that is no string
\* (hashpw and checkpw take bytes: password.encode() raises AttributeError).
FaultyBodies(fields) ==
    { DictV(f) : f \in { g \in [fields -> {StrV("alice"), StrV("bob"), StrV("Passw0rd!"),
                                            IntV(5), StrV("user")}] :
                            /\ g["username"] \in {StrV("alice"), StrV("bob")}
                            /\ g["password"] \in {StrV("Passw0rd!"), IntV(5)}
                            /\ "role" \in fields => g["role"] = StrV("user") } }

\* POST /api/auth/register, with a server that may be gone
RegisterFaulty ==
    \E body \in FaultyBodies({"username", "password", "role"}), salt \in Salts,
       up \in Outages :
        Serve(Request("register", NoneV, body), register_user(DbWhile(up), body, salt))

\* POST /api/auth/login, with a server that may be gone
LoginFaulty ==
    \E body \in FaultyBodies({"username", "password"}), up \in Outages :
        Serve(Request("login", NoneV, body), login_user(DbWhile(up), body))

\* GET /api/data, with a server that may be gone
GetDataFaulty ==
    \E f \in Filters, up \in Outages :
        Serve(Request("get", NoneV, DictV(f)), get_data(DbWhile(up), f))

\* POST /api/data, with a server that may be gone
AddDataFaulty ==
    \E body \in AddBodies, up \in Outages :
        Serve(Request("add", NoneV, body), add_data(DbWhile(up), body))

\* DELETE /api/data/<id>, with a server that may be gone
DeleteDataFaulty ==
    \E id \in IdInputs, up \in Outages :
        Serve(Request("delete", id, NoneV), delete_data(DbWhile(up), id))

\* Every route, with a server that answers and with one that does not.
NextFault ==
    \/ RegisterFaulty
    \/ LoginFaulty
    \/ GetDataFaulty
    \/ AddDataFaulty
    \/ DeleteDataFaulty

SpecFault == Init /\ [][NextFault]_vars

\* Texts: runs of "a" of every length up to MaxText, and runs of U+00E9.
Texts ==
    {Repeat(97, n) : n \in 0..MaxText} \cup {Repeat(233, n) : n \in {1, 8, 16}}

\* Initialisation vectors os.urandom may draw.
IVs == {[i \in 1..IV_LENGTH |-> 0], [i \in 1..IV_LENGTH |-> (37 * i) % 256]}

InitCrypt ==
    /\ InitStore
    /\ inflight = [w \in Workers |-> Idle]
    /\ boot = Database_new(NotBooted, TRUE)
    /\ util \in {Plain(text, iv) : text \in Texts, iv \in IVs}

\* Utils.encrypt(text)
Encrypt ==
    /\ util.stage = "plain"
    /\ util' = [util EXCEPT !.stage = "encrypted",
                            !.encrypted = encrypt(util.text, util.iv)]
    /\ UNCHANGED <<users, data, nextId, req, resp, calls, old, inflight, boot>>

\* Utils.decrypt(encrypted)
Decrypt ==
    /\ util.stage = "encrypted"
    /\ util.encrypted.exc = ""
    /\ util' = [util EXCEPT !.stage = "decrypted",
                            !.decrypted = decrypt(util.encrypted.ret)]
    /\ UNCHANGED <<users, data, nextId, req, resp, calls, old, inflight, boot>>

NextCrypt ==
    \/ Encrypt
    \/ Decrypt

SpecCrypt == InitCrypt /\ [][NextCrypt]_vars

----------------------------------------------------------------------------
(* Properties *)

\* The last request carried a JSON object with these fields, all strings.
HasStrings(fields) ==
    /\ req.body.t = "dict"
    /\ \A k \in fields : k \in DOMAIN req.body.kv /\ req.body.kv[k].t = "str"

\* The lowercased username of the last request.
ReqUsername == StrV(Lower(req.body.kv["username"].s))

\* The positions of the documents of coll registered under username u.
Registered(coll, u) == {i \in DOMAIN coll : coll[i].kv["username"] = u}

\* The position in coll of the document the identifier string names, or 0.
Named(coll, id) == FirstMatch(coll, [_id |-> ObjectId(id).v])

\* C1: a register request whose lowercased username equals that of an
\* earlier successful registration is rejected with 400 "User already
\* exists" and adds no document, so no two user documents share a username.
C1_DuplicateRegistrationRejected ==
    /\ \A i, j \in DOMAIN users :
           i # j => users[i].kv["username"] # users[j].kv["username"]
    /\ ( /\ req.op = "register"
         /\ HasStrings({"username", "password", "role"})
         /\ Registered(old.users, ReqUsername) # {} )
       => /\ resp = Response(400, Message("message", "User already exists"))
          /\ users = old.users

\* C2: the delete handler answers 204 with an empty body when the identifier
\* names a stored record, which is removed, and 404 "Data not found" when
\* nothing was deleted; it never answers 500 to a well-formed identifier.
C2_DeleteAnswers204Or404 ==
    (req.op = "delete" /\ ObjectId(req.id).ok)
    => /\ resp.status # 500
       /\ Named(old.data, req.id) # 0
          => (resp = Response(204, StrV("")) /\ Named(data, req.id) = 0)
       /\ Named(old.data, req.id) = 0
          => resp = Response(404, Message("message", "Data not found"))

\* C3: Database.delete_data(id) returns a deletion outcome whose count is 1
\* when a record with that id existed and 0 when none did, and never raises
\* for a well-formed id.
C3_DeleteDataReturnsCount ==
    \A i \in DOMAIN calls :
        (calls[i].op = "delete_data" /\ ObjectId(calls[i].args[1]).ok)
        => /\ calls[i].exc = ""
           /\ calls[i].ret.t = "DeleteResult"
           /\ calls[i].ret.deleted_count =
                  (IF Named(old.data, calls[i].args[1]) # 0 THEN 1 ELSE 0)

\* C4: login answers 200 with a token if and only if a user with the
\* lowercased username exists and the password verifies against that user's
\* stored hash; an unknown username gives 400 "User not found", a wrong
\* password 400 "Incorrect password", and neither answer carries a token.
C4_LoginIffCredentialsMatch ==
    (req.op = "login" /\ HasStrings({"username", "password"}))
    => LET mine == Registered(old.users, ReqUsername)
           verifies ==
               \E i \in mine :
                   validate_password(old.users[i].kv["password"],
                                     req.body.kv["password"]).ret
       IN  /\ (resp.status = 200 /\ "token" \in DOMAIN resp.body.kv) <=> verifies
           /\ mine = {}
              => resp = Response(400, Message("message", "User not found"))
           /\ (mine # {} /\ ~verifies)
              => resp = Response(400, Message("message", "Incorrect password"))
           /\ resp.status # 200 => "token" \notin DOMAIN resp.body.kv

\* C5: a register request with a non-empty username and password and no
\* role, for a username not yet registered, succeeds with 201, the message
\* "User registered successfully" and the new user identifier.
C5_RoleIsOptional ==
    ( /\ req.op = "register"
      /\ HasStrings({"username", "password"})
      /\ "role" \notin DOMAIN req.body.kv
      /\ req.body.kv["username"].s # "" /\ req.body.kv["password"].s # ""
      /\ Registered(old.users, ReqUsername) = {} )
    => /\ resp.status = 201
       /\ resp.body.kv["message"] = StrV("User registered successfully")
       /\ "user" \in DOMAIN resp.body.kv
       /\ resp.body.kv["user"].t = "str"
       /\ Len(users) = Len(old.users) + 1

\* The password policy (minimum length, character-class mix).
validate_password_rules(password) == password.s \in {"Passw0rd!"}

\* C6: a register request whose password fails the password rule predicate
\* is rejected with 400 "Password does not meet complexity requirements" and
\* no user document is created.
C6_WeakPasswordRejected ==
    ( /\ req.op = "register"
      /\ HasStrings({"username", "password", "role"})
      /\ ~validate_password_rules(req.body.kv["password"]) )
    => /\ resp = Response(400, Message("message",
                      "Password does not meet complexity requirements"))
       /\ users = old.users

\* The last request lacks a required field or carries a malformed one: no
\* JSON body, a null or empty body, no username/password/content, or a
\* username that is no string.
MalformedRequest ==
    \/ /\ req.op \in {"register", "login"}
       /\ \/ req.body.t # "dict"
          \/ "username" \notin DOMAIN req.body.kv
          \/ "password" \notin DOMAIN req.body.kv
          \/ req.body.kv["username"].t # "str"
    \/ /\ req.op = "add"
       /\ \/ req.body.t # "dict"
          \/ "content" \notin DOMAIN req.body.kv

\* C7: in register, login and add record, a request with a missing or
\* malformed required field is rejected with a 4xx answer before any
\* Database call is made; it never produces a 500.
C7_MalformedInputIsClientError ==
    MalformedRequest => (resp.status \in 400..499 /\ calls = <<>>)

\* C8: Database.update_data(id, content) returns a list of exactly one
\* element, the serialized post-update record, when a record with that id
\* exists, and the empty list when none matches.
C8_UpdateReturnsUpdatedRecord ==
    \A i \in DOMAIN calls :
        (calls[i].op = "update_data" /\ ObjectId(calls[i].args[1]).ok)
        => /\ calls[i].exc = ""
           /\ LET pos == Named(old.data, calls[i].args[1])
              IN  calls[i].ret =
                      (IF pos # 0 THEN ListV(<<serialize_data(data[pos])>>)
                                  ELSE ListV(<<>>))

\* C9: after update_data(id, content) on an existing record, every field
\* named in content has the new value, every other field of that record
\* keeps its previous value, and every other record of the data collection
\* is unchanged.
C9_UpdateMergesFields ==
    (req.op = "update_data" /\ ObjectId(req.id).ok /\ Named(old.data, req.id) # 0)
    => LET pos == Named(old.data, req.id)
       IN  /\ Len(data) = Len(old.data)
           /\ \A k \in DOMAIN req.body.kv :
                  k \in DOMAIN data[pos].kv /\ data[pos].kv[k] = req.body.kv[k]
           /\ \A k \in DOMAIN old.data[pos].kv \ DOMAIN req.body.kv :
                  k \in DOMAIN data[pos].kv /\ data[pos].kv[k] = old.data[pos].kv[k]
           /\ \A j \in DOMAIN data : j # pos => data[j] = old.data[j]

\* An update of the second of two records that overwrote "k" with another
\* value and left "j" in place.
C9_Witness ==
    /\ req.op = "update_data"
    /\ ObjectId(req.id).ok
    /\ Named(old.data, req.id) = 2
    /\ "k" \in DOMAIN req.body.kv
    /\ "k" \in DOMAIN old.data[2].kv
    /\ old.data[2].kv["k"] # req.body.kv["k"]
    /\ data[2].kv["k"] = req.body.kv["k"]
    /\ "j" \in DOMAIN data[2].kv
    /\ "owner" \in DOMAIN data[1].kv

\* A value holds a store-native identifier at some depth.
RECURSIVE HasObjectId(_)
HasObjectId(v) ==
    CASE v.t = "oid"  -> TRUE
      [] v.t = "dict" -> \E k \in DOMAIN v.kv : HasObjectId(v.kv[k])
      [] v.t = "list" -> \E i \in DOMAIN v.items : HasObjectId(v.items[i])
      [] OTHER        -> FALSE

\* C10: no value returned by add_user, add_data, get_user, get_all_data or
\* update_data contains a store-native identifier, at any nesting depth.
C10_NoNativeIdLeavesGateway ==
    \A i \in DOMAIN calls :
        ( /\ calls[i].op \in {"add_user", "add_data", "get_user",
                              "get_all_data", "update_data"}
          /\ calls[i].exc = "" )
        => ~HasObjectId(calls[i].ret)

\* C11: an identifier that is not in the store's identifier format, passed
\* to delete_data or update_data, comes back as a not-found outcome (a zero
\* count or an empty list), no exception leaves the gateway, and the delete
\* handler answers it as not found.
C11_InvalidIdIsNotFound ==
    /\ \A i \in DOMAIN calls :
           ( /\ calls[i].op \in {"delete_data", "update_data"}
             /\ ~ObjectId(calls[i].args[1]).ok )
           => /\ calls[i].exc = ""
              /\ \/ calls[i].ret = ListV(<<>>)
                 \/ /\ calls[i].ret.t = "DeleteResult"
                    /\ calls[i].ret.deleted_count = 0
    /\ (req.op = "delete" /\ ~ObjectId(req.id).ok)
       => resp = Response(404, Message("message", "Data not found"))

\* C16: the add-record handler answers 400 "Content is required" and stores
\* nothing when content is absent or empty; for any non-empty content it
\* stores one new record and answers 201 with the message "Data added
\* successfully" and the new record's identifier as a string.
C16_AddRecordAnswers ==
    (req.op = "add" /\ req.body.t = "dict")
    => IF "content" \notin DOMAIN req.body.kv \/ ~Truthy(req.body.kv["content"])
       THEN /\ resp = Response(400, Message("message", "Content is required"))
            /\ data = old.data
       ELSE /\ resp.status = 201
            /\ resp.body.kv["message"] = StrV("Data added successfully")
            /\ resp.body.kv["id"].t = "str"
            /\ Len(data) = Len(old.data) + 1

\* C17: in every reachable state the password field of every user document
\* is an output of hash_password, that of the submitted password for the
\* document a registration just stored; the plaintext is never stored.
C17_PasswordsStoredHashed ==
    /\ \A i \in DOMAIN users :
           /\ users[i].kv["password"] \in
                  {hashpw(p, salt) : p \in PasswordInputs, salt \in Salts}
           /\ users[i].kv["password"] \notin PasswordInputs
    /\ (req.op = "register" /\ resp.status = 201)
       => /\ Len(users) = Len(old.users) + 1
          /\ users[Len(users)].kv["password"] \in
                 {hashpw(req.body.kv["password"], salt) : salt \in Salts}
          /\ users[Len(users)].kv["password"] # req.body.kv["password"]

\* A registration was just answered 201 and its document is in the store.
C17_Witness ==
    /\ req.op = "register"
    /\ resp.status = 201
    /\ Len(users) = 2
    /\ users[2].kv["password"] = hashpw(StrV("Passw0rd!"), 1)

\* C18: after any sequence of requests, every user whose registration was
\* answered 201 with (username, password) can log in: a login with that
\* username and password is answered 200 with a token.
C18_RegisteredUserCanLogIn ==
    ( /\ req.op = "login"
      /\ HasStrings({"username", "password"})
      /\ \E i \in Registered(old.users, ReqUsername), salt \in Salts :
             old.users[i].kv["password"] = hashpw(req.body.kv["password"], salt) )
    => (resp.status = 200 /\ "token" \in DOMAIN resp.body.kv)

\* C19: whenever a handler answers 500, the users and data collections are
\* the same as before the request.
C19_ServerErrorLeavesStore ==
    resp.status = 500 => (users = old.users /\ data = old.data)


\* The documents of a collection whose fields equal every filter entry.
EqualEvery(coll, filter) ==
    SelectSeq(coll, LAMBDA d :
        \A k \in DOMAIN filter : k \in DOMAIN d.kv /\ d.kv[k] = filter[k])

\* C12: get_user and get_all_data return a list, never null: the empty list
\* when no document matches the filter, otherwise exactly the (serialized)
\* documents whose fields equal every filter entry; the list-records handler
\* answers 200 with a JSON array in both cases.
C12_LookupReturnsExactMatches ==
    /\ \A i \in DOMAIN calls :
          /\ calls[i].op = "get_user" =>
                calls[i].ret =
                    serialize_data(ListV(EqualEvery(old.users, calls[i].args[1].kv)))
          /\ calls[i].op = "get_all_data" =>
                calls[i].ret =
                    serialize_data(ListV(EqualEvery(old.data, calls[i].args[1].kv)))
    /\ req.op = "get" => resp.status = 200 /\ resp.body.t = "list"


\* C13: for every string s, decrypt(encrypt(s)) = s, the empty string and
\* the strings whose length is a multiple of the block size included.
C13_EncryptDecryptRoundTrip ==
    /\ util.stage # "plain" => util.encrypted.exc = ""
    /\ util.stage = "decrypted" =>
          util.decrypted.exc = "" /\ util.decrypted.ret = util.text


Routes == {"register", "login", "get", "add", "delete"}

\* The message of each handler's "except Exception" branch.
GenericMessage(op) ==
    CASE op \in {"register", "login"} -> "Internal server error"
      [] op = "get"    -> "Error retrieving data"
      [] op = "add"    -> "Error adding data"
      [] op = "delete" -> "Error deleting data"

\* C14: every request ends in one terminal response, and when a call of the
\* Data Access Layer or the Credential Utility raised while the handler ran,
\* that response is 500 with the handler's fixed message and nothing else.
C14_FaultsAnswered500 ==
    req.op \in Routes =>
        /\ resp.status \in {200, 201, 204, 400, 404, 500}
        /\ (\E i \in DOMAIN calls : calls[i].exc # "")
              => resp = Response(500, Message("message", GenericMessage(req.op)))

\* A registration whose lookup was answered and whose insert met the outage.
C14_Witness ==
    /\ req.op = "register"
    /\ Len(calls) = 3
    /\ calls[1].exc = ""
    /\ calls[3].op = "add_user"
    /\ calls[3].exc = "ServerSelectionTimeoutError"
    /\ resp.status = 500


\* The username worker w registers.
RaceUsername(w) == StrV(Lower(inflight[w].body.kv["username"].s))

\* Workers v and w served requests for one username, each passed the
\* existence check before the other had inserted, and both are finished.
Raced(v, w) ==
    /\ v # w
    /\ inflight[v].at = "done" /\ inflight[w].at = "done"
    /\ inflight[v].passed /\ inflight[w].passed
    /\ RaceUsername(v) = RaceUsername(w)
    /\ w \notin inflight[v].ahead
    /\ v \notin inflight[w].ahead

\* C15: the existence check and the insert of register are separate store
\* operations under no lock: two concurrent requests for one username that
\* both pass the check both insert, and two documents carry the username.
C15_RegisterRaceInsertsTwice ==
    \A v, w \in Workers :
        Raced(v, w) =>
            /\ inflight[v].resp.status = 201
            /\ inflight[w].resp.status = 201
            /\ Cardinality({i \in DOMAIN users :
                               users[i].kv["username"] = RaceUsername(v)}) >= 2

\* Both workers checked while the collection was empty, then both inserted.
C15_Witness ==
    /\ Raced(1, 2)
    /\ inflight[1].ahead = {} /\ inflight[2].ahead = {}
    /\ Len(users) = 2
    /\ users[1].kv["username"] = users[2].kv["username"]


\* C20: a Database() call that returns hands back the process-wide instance
\* with its connection initialised, and a call that finds an instance whose
\* _init_db did not complete runs _init_db again.
C20_ReturnedInstanceIsInitialised ==
    /\ boot.last = "returned" => boot.instance = "ready"
    /\ (boot.last # "none" /\ boot.before # "ready") => boot.tried

====
